---- MODULE Spec2Model ----
(***************************************************************************)
(* Terra-Link: the network orchestration layer.                            *)
(*   src/src/main.rs     main (startup commands, relay sequencer), run_app *)
(*   src/src/network.rs  start_network (the engine loop)                   *)
(*   src/src/app.rs      App (UI-side state, key and event handlers)       *)
(* Two bounded mpsc channels connect the UI loop and the engine task.      *)
(***************************************************************************)
EXTENDS Integers, Sequences, FiniteSets, TLC

\* ------------------------------------------------------------------ bounds
\* Channel capacities.  The code creates both channels with capacity 32
\* (main.rs:55-56); the model scales them down so that a full queue is reached.
CmdCap == 3
EvtCap == 2
\* Environment budgets: substrate events, UI send attempts.
MaxSwarmEvents == 2
MaxUiSends == 2
\* Characters the user types into one chat line.
MaxTyped == 1

\* ------------------------------------------------------- program constants
Grace == 2
PresenceInterval == 15
ChatLimit == 100
NickLimit == 8

\* ------------------------------------------------------------- data values
Proto(p, v) == [p |-> p, v |-> v]

\* "/ip4/0.0.0.0/tcp/0"
Ephemeral == <<Proto("ip4", "0.0.0.0"), Proto("tcp", "0")>>
\* the address given on the command line (listen <addr> / dial <addr>)
ArgAddr == <<Proto("ip4", "10.0.0.1"), Proto("tcp", "4001")>>
\* the address RELAY_NODE parses to
RelayAddr == <<Proto("ip4", "10.0.0.9"), Proto("tcp", "4001"), Proto("p2p", "relay")>>
\* an address of a remote peer, as announced in a presence message
PeerAddr == <<Proto("ip4", "10.0.0.2"), Proto("tcp", "4001")>>

\* Peer identities; their base58 text form; parsing the text form.
LocalPeerId == 0
RemotePeers == {1, 2}
NoPeer == -1

ToBase58(p) ==
    CASE p = 0 -> "12D3KooWLocal"
      [] p = 1 -> "12D3KooWPeerOne"
      [] p = 2 -> "12D3KooWPeerTwo"

ParsePeerId(s) ==
    CASE s = "12D3KooWLocal"   -> 0
      [] s = "12D3KooWPeerOne" -> 1
      [] s = "12D3KooWPeerTwo" -> 2
      [] OTHER -> NoPeer

\* The text form of a Multiaddr, and parsing it back (Err when it does not parse).
Err == [err |-> TRUE]
AddrToString(a) == [str |-> a]
ParseMultiaddr(s) ==
    IF \A i \in 1..Len(s.str) :
          s.str[i].p \in {"ip4", "ip6", "tcp", "p2p", "dns", "p2p-circuit"}
    THEN s.str ELSE Err

\* NetworkCommand (network.rs:26-38)
Listen(a) == [type |-> "Listen", addr |-> a]
Dial(a) == [type |-> "Dial", addr |-> a]
ListenOnRelay(a) == [type |-> "ListenOnRelay", addr |-> a]
PublishMessage(t) == [type |-> "PublishMessage", text |-> t]
\* The variant as the engine destructures it (network.rs:30-33, 197).
PublishMessageFrom(s, t) == [type |-> "PublishMessage", sender_id |-> s, text |-> t]
BroadcastPresence(s, as) ==
    [type |-> "BroadcastPresence", sender_id |-> s, listen_addrs |-> as]

\* NetworkEvent (network.rs:41-48)
Listening(a) == [type |-> "Listening", addr |-> a]
PeerConnected(p, ip) == [type |-> "PeerConnected", peer |-> p, ip |-> ip]
PeerDisconnected(p) == [type |-> "PeerDisconnected", peer |-> p]
MessageReceived(s, t) == [type |-> "MessageReceived", sender_id |-> s, text |-> t]
PeerDiscovered(s, a) == [type |-> "PeerDiscovered", sender |-> s, addr |-> a]
Error(op, a) == [type |-> "Error", op |-> op, addr |-> a]

\* ---------------------------------------------------------------- state
VARIABLES
    mode, relay_env,                 \* process arguments and RELAY_NODE
    mainPc,                          \* main's position
    seqPc, slept,                    \* the spawned relay task; its sleep so far
    cmd_queue, event_queue,          \* the two bounded channels
    engPc, engOut,                   \* engine loop position; events it is sending
    engIn,                           \* the command or substrate event it took last
    listeners, conns, relay_conn,    \* the substrate (swarm)
    should_quit, boot_complete, nickname_buffer, nickname,
    input_mode, input_buffer, peers, peer_locations, listen_addrs,
    chat_messages,                   \* App (app.rs:14-36)
    uiPc, sincePresence,             \* run_app's position; last_presence_broadcast.elapsed()
    sendLog, execLog, emitLog, handledLog,   \* histories
    sinceRelayDial, reservedAt,      \* time since Dial(relay); handshake state at reservation
    swarmCount, uiBudget             \* substrate events raised; UI send attempts allowed

cfgVars == <<mode, relay_env>>
mainVars == <<mainPc>>
seqVars == <<seqPc, slept>>
engVars == <<engPc, engOut, engIn>>
swarmVars == <<listeners, conns, relay_conn>>
keyVars == <<should_quit, boot_complete, nickname_buffer, nickname, input_mode,
             input_buffer>>
netAppVars == <<peers, peer_locations, listen_addrs>>
appVars == <<keyVars, netAppVars, chat_messages>>
uiVars == <<uiPc, sincePresence>>
logVars == <<sendLog, execLog, emitLog, handledLog>>
ghostVars == <<sinceRelayDial, reservedAt, swarmCount, uiBudget>>

vars == <<cfgVars, mainVars, seqVars, cmd_queue, event_queue, engVars, swarmVars,
          appVars, uiVars, logVars, ghostVars>>

Min(a, b) == IF a < b THEN a ELSE b

\* The process is alive: main has not returned (main.rs:119).
running == mainPc # "exited"

\* ----------------------------------------------------------------- Init
\* App::new (app.rs:39-59), the channels (main.rs:55-56), the engine spawned by
\* start_network (network.rs:118), before main sends its first command.
InitState ==
    /\ mainPc = "listen_arg"
    /\ seqPc = "none" /\ slept = 0
    /\ cmd_queue = <<>> /\ event_queue = <<>>
    /\ engPc = "select" /\ engOut = <<>> /\ engIn = [kind |-> "none"]
    /\ listeners = 0 /\ conns = [p \in RemotePeers |-> 0] /\ relay_conn = "none"
    /\ should_quit = FALSE /\ boot_complete = FALSE
    /\ nickname_buffer = <<>> /\ nickname = <<>>
    /\ input_mode = FALSE /\ input_buffer = <<>>
    /\ peers = <<>> /\ peer_locations = {} /\ listen_addrs = <<>>
    /\ chat_messages = <<>>
    /\ uiPc = "idle" /\ sincePresence = 0
    /\ sendLog = <<>> /\ execLog = <<>> /\ emitLog = <<>> /\ handledLog = <<>>
    /\ sinceRelayDial = 0 /\ reservedAt = "never"
    /\ swarmCount = 0

\* ------------------------------------------------------------- channels
\* Sender::send(..).await on the command channel: completes when there is room.
CanSend == Len(cmd_queue) < CmdCap

\* Mutant: the newest command goes to the front of the queue.
SendCmdFront(cmd, by) ==
    /\ CanSend
    /\ cmd_queue' = <<cmd>> \o cmd_queue
    /\ sendLog' = Append(sendLog, [cmd |-> cmd, by |-> by, ok |-> TRUE])

SendCmd(cmd, by) ==
    /\ CanSend
    /\ cmd_queue' = Append(cmd_queue, cmd)
    /\ sendLog' = Append(sendLog, [cmd |-> cmd, by |-> by, ok |-> TRUE])

\* Mutant: the UI awaits room in the queue as main does.
TrySendBlocking(cmd) == SendCmd(cmd, "ui")

\* Sender::try_send: returns at once; Err(Full) leaves the queue as it is.
TrySendAccepts == Len(cmd_queue) < CmdCap /\ engPc # "stopped"

TrySend(cmd) ==
    /\ cmd_queue' = IF TrySendAccepts THEN Append(cmd_queue, cmd) ELSE cmd_queue
    /\ sendLog' = Append(sendLog, [cmd |-> cmd, by |-> "ui", ok |-> TrySendAccepts])

\* ------------------------------------------------------------ main (startup)
\* Mutant: the relay is dialed without opening a listener first.
AfterDialArgNoListener == IF relay_env = "valid" THEN "relay_dial" ELSE "run_app"

\* Mutant: with a relay configured the extra listener is opened in every mode.
AfterDialArgAlwaysListen == IF relay_env = "valid" THEN "relay_listen" ELSE "run_app"

\* The position after main.rs:64-69: lines 70-82 run only in dial mode.
AfterDialArg ==
    IF relay_env = "valid"
    THEN (IF mode = "none" THEN "relay_listen" ELSE "relay_dial")
    ELSE "run_app"

AfterListenArg == IF mode = "dial" THEN "dial_listen" ELSE AfterDialArg

\* main.rs:64-69
MainListenArg ==
    /\ running /\ mainPc = "listen_arg"
    /\ IF mode = "listen"
       THEN SendCmd(Listen(ArgAddr), "main")
       ELSE UNCHANGED <<cmd_queue, sendLog>>
    /\ mainPc' = AfterListenArg
    /\ UNCHANGED <<cfgVars, seqVars, event_queue, engVars, swarmVars, appVars,
                   uiVars, execLog, emitLog, handledLog, ghostVars>>

\* main.rs:70-77
MainDialListen ==
    /\ running /\ mainPc = "dial_listen"
    /\ SendCmd(Listen(Ephemeral), "main")
    /\ mainPc' = "dial_arg"
    /\ UNCHANGED <<cfgVars, seqVars, event_queue, engVars, swarmVars, appVars,
                   uiVars, execLog, emitLog, handledLog, ghostVars>>

\* main.rs:78-81
MainDialArg ==
    /\ running /\ mainPc = "dial_arg"
    /\ SendCmd(Dial(ArgAddr), "main")
    /\ mainPc' = AfterDialArg
    /\ UNCHANGED <<cfgVars, seqVars, event_queue, engVars, swarmVars, appVars,
                   uiVars, execLog, emitLog, handledLog, ghostVars>>

\* main.rs:88-95
MainRelayListen ==
    /\ running /\ mainPc = "relay_listen"
    /\ SendCmd(Listen(Ephemeral), "main")
    /\ mainPc' = "relay_dial"
    /\ UNCHANGED <<cfgVars, seqVars, event_queue, engVars, swarmVars, appVars,
                   uiVars, execLog, emitLog, handledLog, ghostVars>>

\* main.rs:98-112: send Dial(relay), then spawn the task that reserves the circuit
MainRelayDial ==
    /\ running /\ mainPc = "relay_dial"
    /\ SendCmd(Dial(RelayAddr), "main")
    /\ seqPc' = "spawned"
    /\ sinceRelayDial' = 0
    /\ mainPc' = "run_app"
    /\ UNCHANGED <<cfgVars, slept, event_queue, engVars, swarmVars, appVars,
                   uiVars, execLog, emitLog, handledLog, reservedAt, swarmCount, uiBudget>>

\* main.rs:116, 128-131: run_app starts; last_presence_broadcast = Instant::now()
MainRunApp ==
    /\ running /\ mainPc = "run_app"
    /\ mainPc' = "ui"
    /\ uiPc' = "loop"
    /\ sincePresence' = 0
    /\ UNCHANGED <<cfgVars, seqVars, cmd_queue, event_queue, engVars, swarmVars,
                   appVars, logVars, ghostVars>>

\* main.rs:133, 203: the loop condition fails, run_app returns and drops cmd_sender
RunAppReturn ==
    /\ running /\ uiPc = "loop" /\ should_quit
    /\ uiPc' = "returned"
    /\ mainPc' = "restore"
    /\ UNCHANGED <<cfgVars, seqVars, cmd_queue, event_queue, engVars, swarmVars,
                   appVars, sincePresence, logVars, ghostVars>>

\* main.rs:118-120: the terminal is restored and main's body returns, dropping its
\* locals, event_receiver among them
MainReturn ==
    /\ running /\ mainPc = "restore"
    /\ mainPc' = "returned"
    /\ UNCHANGED <<cfgVars, seqVars, cmd_queue, event_queue, engVars, swarmVars, appVars,
                   uiVars, logVars, ghostVars>>

\* main.rs:16: the runtime built by #[tokio::main] shuts down and cancels its tasks
MainExit ==
    /\ running /\ mainPc = "returned"
    /\ mainPc' = "exited"
    /\ UNCHANGED <<cfgVars, seqVars, cmd_queue, event_queue, engVars, swarmVars, appVars,
                   uiVars, logVars, ghostVars>>

\* Some Sender of the command channel still exists: run_app's, or the relay task's clone.
UiSenderAlive == mainPc \notin {"restore", "returned", "exited"}
\* The Receiver of the event channel still exists (main.rs:56, 120).
ReceiverAlive == mainPc \notin {"returned", "exited"}
SendersAlive == UiSenderAlive \/ seqPc \in {"spawned", "sleeping"}

\* ------------------------------------------------------ relay sequencer task
\* main.rs:106-108: the task is first polled and calls sleep
SeqStart ==
    /\ running /\ seqPc = "spawned"
    /\ seqPc' = "sleeping"
    /\ slept' = 0
    /\ UNCHANGED <<cfgVars, mainVars, cmd_queue, event_queue, engVars, swarmVars, appVars,
                   uiVars, logVars, ghostVars>>

\* Mutant: the sleep is one second short.
GraceElapsedShort == slept >= Grace - 1

\* Mutant: the task waits for the handshake as well as for the timer.
GraceElapsedGated == slept >= Grace /\ relay_conn = "identified"

\* tokio::time::sleep(Duration::from_secs(2)) has completed (main.rs:108)
GraceElapsed == slept >= Grace

\* Mutant: the task loops and reserves again.
SeqReserveAgain ==
    /\ running /\ seqPc = "sleeping"
    /\ GraceElapsed
    /\ Len(sendLog) < 6
    /\ SendCmd(ListenOnRelay(RelayAddr), "seq")
    /\ UNCHANGED <<cfgVars, mainVars, seqVars, event_queue, engVars, swarmVars, appVars,
                   uiVars, execLog, emitLog, handledLog, ghostVars>>

\* main.rs:108-111: after the sleep, send ListenOnRelay; the task ends, dropping its Sender
SeqReserve ==
    /\ running /\ seqPc = "sleeping"
    /\ GraceElapsed
    /\ SendCmd(ListenOnRelay(RelayAddr), "seq")
    /\ seqPc' = "done"
    /\ UNCHANGED <<cfgVars, mainVars, slept, event_queue, engVars, swarmVars, appVars,
                   uiVars, execLog, emitLog, handledLog, ghostVars>>

\* ------------------------------------------------------------------ time
RelayDialSent == seqPc # "none"
InRunApp == uiPc \notin {"idle", "returned"}

\* ------------------------------------------------------- engine: swarm events
\* SwarmEvent values the substrate raises (network.rs:121-176)
NewListenAddr(a) == [ev |-> "NewListenAddr", address |-> a]
ConnectionEstablished(p, remote) ==
    [ev |-> "ConnectionEstablished", peer_id |-> p, remote |-> remote]
ConnectionClosed(p) == [ev |-> "ConnectionClosed", peer_id |-> p]
GossipMessage(data) == [ev |-> "Gossip", data |-> data]
OtherEvent == [ev |-> "Other"]

\* Payloads of the shared topic: bytes that decode to an envelope, or do not.
NoIp == "none"
ChatMsg(s, t, ts) == [kind |-> "Chat", sender_id |-> s, text |-> t, timestamp |-> ts]
PresenceMsg(s, as, ts) ==
    [kind |-> "Presence", sender_id |-> s, listen_addrs |-> as, timestamp |-> ts]
DirectMsg == [kind |-> "Direct"]
EmptyEnvelope == [kind |-> "None"]

\* The encoded form is a sequence of fields, each a field number, a wire type and a
\* value.  The field numbers are those of the model: the schema is not in the source
\* tree.  Numbers 1, 2 and 3 of the envelope are the variants of its oneof.
Field(tag, type, val) == [tag |-> tag, type |-> type, val |-> val]

\* A scalar field holding its default value is not written.
Scalar(tag, type, val, default) ==
    IF val = default THEN <<>> ELSE <<Field(tag, type, val)>>

\* A repeated field is written once per element, in order, defaults included.
RECURSIVE Repeated(_, _)
Repeated(tag, vals) ==
    IF vals = <<>> THEN <<>>
    ELSE <<Field(tag, "bytes", Head(vals))>> \o Repeated(tag, Tail(vals))

\* NetworkMessage::encode (network.rs:218, 245)
Encode(m) ==
    CASE m.kind = "Chat" ->
            <<Field(1, "message",
                    Scalar(1, "bytes", m.sender_id, "") \o Scalar(2, "bytes", m.text, <<>>)
                        \o Scalar(3, "varint", m.timestamp, 0))>>
      [] m.kind = "Presence" ->
            <<Field(2, "message",
                    Scalar(1, "bytes", m.sender_id, "") \o Repeated(2, m.listen_addrs)
                        \o Scalar(3, "varint", m.timestamp, 0))>>
      [] m.kind = "Direct" -> <<Field(3, "message", <<>>)>>
      [] OTHER -> <<>>

\* Mutant: the chat envelope is built without the sender.
EnvelopeAnonymous(cmd, ts) ==
    IF cmd.type = "PublishMessage" THEN ChatMsg("", cmd.text, ts)
    ELSE PresenceMsg(cmd.sender_id, cmd.listen_addrs, ts)

\* network.rs:207-215, 234-242: the envelope the engine builds for a publish command,
\* stamped with the time of the call
Envelope(cmd, ts) ==
    IF cmd.type = "PublishMessage" THEN ChatMsg(cmd.sender_id, cmd.text, ts)
    ELSE PresenceMsg(cmd.sender_id, cmd.listen_addrs, ts)

\* Bytes that are no envelope: field 1 is not a nested message.
Garbage == <<Field(1, "varint", 0)>>
\* An envelope of a later schema: its only field is one this build does not know.
FutureEnvelope == <<Field(9, "varint", 7)>>

\* Wire types of the fields of GlobalChat and of Presence, which agree.
FieldTypes == (1 :> "bytes") @@ (2 :> "bytes") @@ (3 :> "varint")

\* A known field must have the wire type of its declaration; unknown fields are skipped.
WellTyped(fields, types) ==
    \A i \in 1..Len(fields) :
        fields[i].tag \in DOMAIN types => fields[i].type = types[fields[i].tag]

\* The last occurrence of a scalar field wins; an absent field reads as its default.
RECURSIVE LastField(_, _, _)
LastField(fields, tag, default) ==
    IF fields = <<>> THEN default
    ELSE IF fields[Len(fields)].tag = tag THEN fields[Len(fields)].val
    ELSE LastField(SubSeq(fields, 1, Len(fields) - 1), tag, default)

RECURSIVE RepeatedField(_, _)
RepeatedField(fields, tag) ==
    IF fields = <<>> THEN <<>>
    ELSE (IF Head(fields).tag = tag THEN <<Head(fields).val>> ELSE <<>>)
            \o RepeatedField(Tail(fields), tag)

VariantOk(f) ==
    CASE f.tag \in {1, 2} -> f.type = "message" /\ WellTyped(f.val, FieldTypes)
      [] f.tag = 3 -> f.type = "message"
      [] OTHER -> TRUE

\* NetworkMessage::decode (network.rs:147)
Decode(data) ==
    IF \E i \in 1..Len(data) : ~VariantOk(data[i]) THEN Err
    ELSE LET variants == SelectSeq(data, LAMBDA f : f.tag \in {1, 2, 3})
         IN IF variants = <<>> THEN EmptyEnvelope
            ELSE LET f == variants[Len(variants)]
                 IN CASE f.tag = 1 ->
                            ChatMsg(LastField(f.val, 1, ""), LastField(f.val, 2, <<>>),
                                    LastField(f.val, 3, 0))
                      [] f.tag = 2 ->
                            PresenceMsg(LastField(f.val, 1, ""), RepeatedField(f.val, 2),
                                        LastField(f.val, 3, 0))
                      [] OTHER -> DirectMsg

\* network.rs:126-133: the last Ip4/Ip6 component of the remote address, if any
RECURSIVE LastIp(_, _, _)
LastIp(addr, i, ip) ==
    IF i > Len(addr) THEN ip
    ELSE LastIp(addr, i + 1, IF addr[i].p \in {"ip4", "ip6"} THEN addr[i].v ELSE ip)

ExtractIp(addr) == LastIp(addr, 1, NoIp)

\* Mutant: the first address that does not parse ends the announcement.
RECURSIVE PresenceEventsUntilBad(_, _)
PresenceEventsUntilBad(sender, addrs) ==
    IF addrs = <<>> THEN <<>>
    ELSE LET a == ParseMultiaddr(Head(addrs))
         IN IF a # Err
            THEN <<PeerDiscovered(sender, a)>> \o PresenceEventsUntilBad(sender, Tail(addrs))
            ELSE <<>>

\* network.rs:157-163: one PeerDiscovered per listed address that parses
RECURSIVE PresenceEvents(_, _)
PresenceEvents(sender, addrs) ==
    IF addrs = <<>> THEN <<>>
    ELSE LET a == ParseMultiaddr(Head(addrs))
             rest == PresenceEvents(sender, Tail(addrs))
         IN IF a # Err THEN <<PeerDiscovered(sender, a)>> \o rest ELSE rest

\* Mutant: a payload that does not decode is reported as an Error.
GossipEventsReportDecode(data) ==
    LET m == Decode(data)
    IN IF m = Err THEN <<Error("Decode", <<>>)>>
       ELSE CASE m.kind = "Chat" -> <<MessageReceived(m.sender_id, m.text)>>
              [] m.kind = "Presence" -> PresenceEvents(m.sender_id, m.listen_addrs)
              [] OTHER -> <<>>

\* Mutant: a chat message stamped in the future is rejected.
GossipEventsFreshOnly(data) ==
    LET m == Decode(data)
    IN IF m = Err THEN <<>>
       ELSE CASE m.kind = "Chat" ->
                    IF m.timestamp > 1000 THEN <<>>
                    ELSE <<MessageReceived(m.sender_id, m.text)>>
              [] m.kind = "Presence" -> PresenceEvents(m.sender_id, m.listen_addrs)
              [] OTHER -> <<>>

\* Mutant: an envelope without a handled variant is reported as an Error.
GossipEventsReportUnknown(data) ==
    LET m == Decode(data)
    IN IF m = Err THEN <<>>
       ELSE CASE m.kind = "Chat" -> <<MessageReceived(m.sender_id, m.text)>>
              [] m.kind = "Presence" -> PresenceEvents(m.sender_id, m.listen_addrs)
              [] OTHER -> <<Error("Decode", <<>>)>>

\* network.rs:141-169
GossipEvents(data) ==
    LET m == Decode(data)
    IN IF m = Err THEN <<>>
       ELSE CASE m.kind = "Chat" -> <<MessageReceived(m.sender_id, m.text)>>
              [] m.kind = "Presence" -> PresenceEvents(m.sender_id, m.listen_addrs)
              [] OTHER -> <<>>

\* network.rs:121-176: the NetworkEvents the engine sends for one SwarmEvent
OnSwarmEvent(e) ==
    CASE e.ev = "NewListenAddr" -> <<Listening(e.address)>>
      [] e.ev = "ConnectionEstablished" ->
            IF ExtractIp(e.remote) # NoIp
            THEN <<PeerConnected(e.peer_id, ExtractIp(e.remote))>> ELSE <<>>
      [] e.ev = "ConnectionClosed" -> <<PeerDisconnected(e.peer_id)>>
      [] e.ev = "Gossip" -> GossipEvents(e.data)
      [] OTHER -> <<>>

\* The engine takes one SwarmEvent from swarm.select_next_some() and handles it.
EngineHandles(e) ==
    /\ running /\ engPc = "select"
    /\ engIn' = [kind |-> "swarm", ev |-> e]
    /\ engOut' = OnSwarmEvent(e)
    /\ engPc' = IF engOut' = <<>> THEN "select" ELSE "send"
    /\ UNCHANGED <<cfgVars, mainVars, seqVars, cmd_queue, event_queue, appVars, uiVars,
                   logVars, sinceRelayDial, reservedAt, uiBudget>>

\* An event the substrate raises of its own: at most MaxSwarmEvents of them.
EngineSwarm(e) ==
    /\ swarmCount < MaxSwarmEvents
    /\ swarmCount' = swarmCount + 1
    /\ EngineHandles(e)

\* network.rs:122-124
SwarmNewListenAddr ==
    /\ listeners > 0
    /\ EngineSwarm(NewListenAddr(ArgAddr))
    /\ UNCHANGED swarmVars

\* Remote addresses of established connections: direct, by name, through the relay.
Loopback == <<Proto("ip4", "127.0.0.1"), Proto("tcp", "4001")>>
DnsAddr == <<Proto("dns", "peer.example"), Proto("tcp", "4001")>>
RelayedAddr == RelayAddr \o <<Proto("p2p-circuit", "")>>
RemoteAddrs == {PeerAddr, Loopback, DnsAddr, RelayedAddr}

\* network.rs:125-137
SwarmConnectionEstablishedFrom(ps, remotes) ==
    \E p \in ps, remote \in remotes :
        /\ EngineSwarm(ConnectionEstablished(p, remote))
        /\ conns' = [conns EXCEPT ![p] = @ + 1]
        /\ UNCHANGED <<listeners, relay_conn>>

\* network.rs:138-140: one event per connection that closes, so no more of them than
\* connections were established
SwarmConnectionClosed ==
    \E p \in RemotePeers :
        /\ conns[p] > 0
        /\ EngineHandles(ConnectionClosed(p))
        /\ conns' = [conns EXCEPT ![p] = @ - 1]
        /\ UNCHANGED <<listeners, relay_conn, swarmCount>>

\* What peers publish on the topic.
BadAddrString == [str |-> <<Proto("bogus", "x")>>]
PresenceOf(sender) == Encode(PresenceMsg(sender, <<AddrToString(PeerAddr)>>, 2000))
ChatInput == Encode(ChatMsg("abc123", <<"h", "i">>, 1000))
\* Timestamps a peer may put in a message: zero, past, far in the future (the largest
\* integer of the model stands for u64::MAX).
Timestamps == {0, 1000, 2147483647}

RECURSIVE CountDiscovered(_)
CountDiscovered(q) ==
    IF q = <<>> THEN 0
    ELSE (IF Head(q).type = "PeerDiscovered" THEN 1 ELSE 0) + CountDiscovered(Tail(q))

RECURSIVE CountUiSends(_)
CountUiSends(log) ==
    IF log = <<>> THEN 0
    ELSE (IF Head(log).by = "ui" THEN 1 ELSE 0) + CountUiSends(Tail(log))

\* UI send attempts made so far plus those the pending inputs will cause.
BudgetFor(n) ==
    CountUiSends(sendLog) + CountDiscovered(event_queue) + CountDiscovered(engOut)
    + (IF sincePresence > PresenceInterval THEN 1 ELSE 0) + n <= uiBudget

\* network.rs:141-169
SwarmGossipFrom(inputs) ==
    \E data \in inputs :
        /\ BudgetFor(CountDiscovered(GossipEvents(data)))
        /\ EngineSwarm(GossipMessage(data))
        /\ UNCHANGED swarmVars

\* network.rs:170-175: any other event (identify, ping, ...) is only logged.  The
\* substrate finishes the identify exchange with a dialed relay on such an event.
SwarmOther ==
    /\ EngineSwarm(OtherEvent)
    /\ relay_conn' = IF relay_conn = "dialing" THEN "identified" ELSE relay_conn
    /\ UNCHANGED <<listeners, conns>>

\* network.rs:119-121, 170-175: the substrate has an event ready whenever the engine
\* selects (pings, identify pushes, ...), beyond those counted in swarmCount
SwarmPing ==
    /\ EngineHandles(OtherEvent)
    /\ UNCHANGED <<swarmVars, swarmCount>>

\* --------------------------------------------------------- engine: commands
\* network.rs:190-192
WithCircuit(addr) == Append(addr, Proto("p2p-circuit", ""))

\* Mutant: a failed relay reservation is not reported.
CommandEventsNoReserve(cmd, ok) ==
    IF ok THEN <<>>
    ELSE CASE cmd.type = "Listen" -> <<Error("Listen", cmd.addr)>>
           [] cmd.type = "Dial" -> <<Error("Dial", cmd.addr)>>
           [] OTHER -> <<>>

\* Mutant: a failed publish is reported like a failed dial.
CommandEventsPublish(cmd, ok) ==
    IF ok THEN <<>>
    ELSE CASE cmd.type = "Listen" -> <<Error("Listen", cmd.addr)>>
           [] cmd.type = "Dial" -> <<Error("Dial", cmd.addr)>>
           [] cmd.type = "ListenOnRelay" ->
                 <<Error("Relay Reservation", WithCircuit(cmd.addr))>>
           [] OTHER -> <<Error("Publish", <<>>)>>

\* Mutant: a failed dial is not reported.
CommandEventsNoDial(cmd, ok) ==
    IF ok THEN <<>>
    ELSE CASE cmd.type = "Listen" -> <<Error("Listen", cmd.addr)>>
           [] cmd.type = "ListenOnRelay" ->
                 <<Error("Relay Reservation", WithCircuit(cmd.addr))>>
           [] OTHER -> <<>>

\* network.rs:180-196: the Error event of a failed substrate call
CommandEvents(cmd, ok) ==
    IF ok THEN <<>>
    ELSE CASE cmd.type = "Listen" -> <<Error("Listen", cmd.addr)>>
           [] cmd.type = "Dial" -> <<Error("Dial", cmd.addr)>>
           [] cmd.type = "ListenOnRelay" ->
                 <<Error("Relay Reservation", WithCircuit(cmd.addr))>>
           [] OTHER -> <<>>

\* Mutant: the selection is biased: a command is taken only when no substrate event
\* is ready.
EngineCommandWithBiased(outcomes) ==
    /\ ~ENABLED SwarmPing
    /\ running /\ engPc = "select"
    /\ cmd_queue # <<>>
    /\ \E ok \in outcomes :
        LET cmd == Head(cmd_queue) IN
        /\ cmd_queue' = Tail(cmd_queue)
        /\ execLog' = Append(execLog, cmd)
        /\ engIn' = [kind |-> "cmd", cmd |-> cmd, ok |-> ok]
        /\ engOut' = CommandEvents(cmd, ok)
        /\ engPc' = IF engOut' = <<>> THEN "select" ELSE "send"
        /\ listeners' = IF ok /\ cmd.type \in {"Listen", "ListenOnRelay"}
                        THEN listeners + 1 ELSE listeners
        /\ relay_conn' = IF ok /\ cmd.type = "Dial" /\ cmd.addr = RelayAddr
                            /\ relay_conn = "none"
                         THEN "dialing" ELSE relay_conn
        /\ reservedAt' = IF cmd.type = "ListenOnRelay" /\ reservedAt = "never"
                         THEN relay_conn ELSE reservedAt
    /\ UNCHANGED <<cfgVars, mainVars, seqVars, event_queue, conns, appVars, uiVars,
                   sendLog, emitLog, handledLog, sinceRelayDial, swarmCount, uiBudget>>

\* network.rs:177-251: cmd_receiver.recv() yields a command; the engine executes it.
\* outcomes are the results the substrate's listen_on / dial call may give.
EngineCommandWith(outcomes) ==
    /\ running /\ engPc = "select"
    /\ cmd_queue # <<>>
    /\ \E ok \in outcomes :
        LET cmd == Head(cmd_queue) IN
        /\ cmd_queue' = Tail(cmd_queue)
        /\ execLog' = Append(execLog, cmd)
        /\ engIn' = [kind |-> "cmd", cmd |-> cmd, ok |-> ok]
        /\ engOut' = CommandEvents(cmd, ok)
        /\ engPc' = IF engOut' = <<>> THEN "select" ELSE "send"
        /\ listeners' = IF ok /\ cmd.type \in {"Listen", "ListenOnRelay"}
                        THEN listeners + 1 ELSE listeners
        /\ relay_conn' = IF ok /\ cmd.type = "Dial" /\ cmd.addr = RelayAddr
                            /\ relay_conn = "none"
                         THEN "dialing" ELSE relay_conn
        /\ reservedAt' = IF cmd.type = "ListenOnRelay" /\ reservedAt = "never"
                         THEN relay_conn ELSE reservedAt
    /\ UNCHANGED <<cfgVars, mainVars, seqVars, event_queue, conns, appVars, uiVars,
                   sendLog, emitLog, handledLog, sinceRelayDial, swarmCount, uiBudget>>

EngineCommand == EngineCommandWith(BOOLEAN)

\* Mutant: the engine gives up when it cannot deliver an event.
EngineStopOnSendError ==
    /\ running /\ engPc = "send"
    /\ ~ReceiverAlive
    /\ engPc' = "stopped"
    /\ UNCHANGED <<cfgVars, mainVars, seqVars, cmd_queue, event_queue, engOut, engIn, swarmVars,
                   appVars, uiVars, logVars, ghostVars>>

\* network.rs:252-255: recv() yields None (no Sender left, nothing buffered): break
EngineStop ==
    /\ running /\ engPc = "select"
    /\ cmd_queue = <<>> /\ ~SendersAlive
    /\ engPc' = "stopped"
    /\ UNCHANGED <<cfgVars, mainVars, seqVars, cmd_queue, event_queue, engOut, engIn, swarmVars,
                   appVars, uiVars, logVars, ghostVars>>

\* A fault: the engine task ends by a panic (in the substrate's poll, or at an unwrap
\* such as network.rs:218), which drops cmd_receiver and event_sender.
EngineAbort ==
    /\ running /\ engPc # "stopped"
    /\ engPc' = "stopped"
    /\ UNCHANGED <<cfgVars, mainVars, seqVars, cmd_queue, event_queue, engOut, engIn, swarmVars,
                   appVars, uiVars, logVars, ghostVars>>

\* Mutant: the engine drops the event when the inbound queue is full.
EngineSendOrDrop ==
    /\ running /\ engPc = "send"
    /\ event_queue' = IF Len(event_queue) < EvtCap
                       THEN Append(event_queue, Head(engOut)) ELSE event_queue
    /\ emitLog' = IF Len(event_queue) < EvtCap
                   THEN Append(emitLog, Head(engOut)) ELSE emitLog
    /\ engOut' = Tail(engOut)
    /\ engPc' = IF engOut' = <<>> THEN "select" ELSE "send"
    /\ UNCHANGED <<cfgVars, mainVars, seqVars, cmd_queue, engIn, swarmVars, appVars, uiVars,
                   sendLog, execLog, handledLog, ghostVars>>

\* let _ = event_sender.send(..).await: waits for room in the inbound queue; once the
\* Receiver is gone it returns Err at once, which is ignored
EngineSend ==
    /\ running /\ engPc = "send"
    /\ ReceiverAlive => Len(event_queue) < EvtCap
    /\ event_queue' = IF ReceiverAlive THEN Append(event_queue, Head(engOut))
                       ELSE event_queue
    /\ emitLog' = IF ReceiverAlive THEN Append(emitLog, Head(engOut)) ELSE emitLog
    /\ engOut' = Tail(engOut)
    /\ engPc' = IF engOut' = <<>> THEN "select" ELSE "send"
    /\ UNCHANGED <<cfgVars, mainVars, seqVars, cmd_queue, engIn, swarmVars, appVars, uiVars,
                   sendLog, execLog, handledLog, ghostVars>>

\* ------------------------------------------------------------ App (app.rs)
\* Keys
KeyEnter == [code |-> "Enter"]
KeyEsc == [code |-> "Esc"]
KeyBackspace == [code |-> "Backspace"]
KeyTab == [code |-> "Tab"]
KeyChar(c) == [code |-> "Char", c |-> c]

\* String::len counts bytes

RECURSIVE ByteLen(_)
ByteLen(str) ==
    IF str = <<>> THEN 0 ELSE (IF Head(str) = "é" THEN 2 ELSE 1) + ByteLen(Tail(str))

\* String::pop
Pop(str) == IF str = <<>> THEN <<>> ELSE SubSeq(str, 1, Len(str) - 1)

\* str::trim
RECURSIVE TrimStart(_)
TrimStart(str) ==
    IF str # <<>> /\ Head(str) = " " THEN TrimStart(Tail(str)) ELSE str

RECURSIVE TrimEnd(_)
TrimEnd(str) ==
    IF str # <<>> /\ str[Len(str)] = " " THEN TrimEnd(Pop(str)) ELSE str

Trim(str) == TrimEnd(TrimStart(str))

\* app.rs:145-160; nickname <<>> stands for None (Some is never empty, app.rs:89-93)
display_name == IF nickname # <<>> THEN nickname ELSE <<"ooWLocal">>

\* Mutant: Esc quits at the nickname prompt as it does in normal mode.
HandleKeyBootQuit(key) ==
    /\ boot_complete' = (key.code = "Enter")
    /\ nickname' = IF key.code = "Enter" THEN Trim(nickname_buffer) ELSE nickname
    /\ nickname_buffer' =
          CASE key.code = "Char" ->
                  IF ByteLen(nickname_buffer) < NickLimit
                  THEN Append(nickname_buffer, key.c) ELSE nickname_buffer
            [] key.code = "Backspace" -> Pop(nickname_buffer)
            [] OTHER -> nickname_buffer
    /\ should_quit' = (key.code = "Esc")
    /\ UNCHANGED <<input_mode, input_buffer, chat_messages, cmd_queue, sendLog>>

\* app.rs:85-107: the nickname prompt
HandleKeyBoot(key) ==
    /\ boot_complete' = (key.code = "Enter")
    /\ nickname' = IF key.code = "Enter" THEN Trim(nickname_buffer) ELSE nickname
    /\ nickname_buffer' =
          CASE key.code = "Char" ->
                  IF ByteLen(nickname_buffer) < NickLimit
                  THEN Append(nickname_buffer, key.c) ELSE nickname_buffer
            [] key.code = "Backspace" -> Pop(nickname_buffer)
            [] OTHER -> nickname_buffer
    /\ UNCHANGED <<should_quit, input_mode, input_buffer, chat_messages, cmd_queue,
                   sendLog>>

\* app.rs:111-122: Enter in input mode publishes a non-empty buffer
SubmitsChat(key) == key.code = "Enter" /\ input_buffer # <<>>

\* Mutant: Esc in input mode quits.
HandleKeyInputQuit(key) ==
    /\ IF SubmitsChat(key)
       THEN /\ TrySend(PublishMessage(input_buffer))
            /\ chat_messages' = Append(chat_messages, <<display_name, input_buffer>>)
       ELSE UNCHANGED <<cmd_queue, sendLog, chat_messages>>
    /\ input_buffer' =
          CASE key.code \in {"Enter", "Esc"} -> <<>>
            [] key.code = "Char" -> Append(input_buffer, key.c)
            [] key.code = "Backspace" -> Pop(input_buffer)
            [] OTHER -> input_buffer
    /\ input_mode' = (key.code \notin {"Enter", "Esc"})
    /\ should_quit' = (key.code = "Esc")
    /\ UNCHANGED <<boot_complete, nickname_buffer, nickname>>

\* Mutant: Esc leaves input mode without clearing the line.
HandleKeyInputKeepLine(key) ==
    /\ IF SubmitsChat(key)
       THEN /\ TrySend(PublishMessage(input_buffer))
            /\ chat_messages' = Append(chat_messages, <<display_name, input_buffer>>)
       ELSE UNCHANGED <<cmd_queue, sendLog, chat_messages>>
    /\ input_buffer' =
          CASE key.code = "Enter" -> <<>>
            [] key.code = "Char" -> Append(input_buffer, key.c)
            [] key.code = "Backspace" -> Pop(input_buffer)
            [] OTHER -> input_buffer
    /\ input_mode' = (key.code \notin {"Enter", "Esc"})
    /\ UNCHANGED <<should_quit, boot_complete, nickname_buffer, nickname>>

\* Mutant: Enter on an empty line is echoed to the history as well.
HandleKeyInputEchoEmpty(key) ==
    /\ IF SubmitsChat(key)
       THEN TrySend(PublishMessage(input_buffer))
       ELSE UNCHANGED <<cmd_queue, sendLog>>
    /\ chat_messages' = IF key.code = "Enter"
                        THEN Append(chat_messages, <<display_name, input_buffer>>)
                        ELSE chat_messages
    /\ input_buffer' =
          CASE key.code \in {"Enter", "Esc"} -> <<>>
            [] key.code = "Char" -> Append(input_buffer, key.c)
            [] key.code = "Backspace" -> Pop(input_buffer)
            [] OTHER -> input_buffer
    /\ input_mode' = (key.code \notin {"Enter", "Esc"})
    /\ UNCHANGED <<should_quit, boot_complete, nickname_buffer, nickname>>

\* app.rs:109-134
HandleKeyInput(key) ==
    /\ IF SubmitsChat(key)
       THEN /\ TrySend(PublishMessage(input_buffer))
            /\ chat_messages' = Append(chat_messages, <<display_name, input_buffer>>)
       ELSE UNCHANGED <<cmd_queue, sendLog, chat_messages>>
    /\ input_buffer' =
          CASE key.code \in {"Enter", "Esc"} -> <<>>
            [] key.code = "Char" -> Append(input_buffer, key.c)
            [] key.code = "Backspace" -> Pop(input_buffer)
            [] OTHER -> input_buffer
    /\ input_mode' = (key.code \notin {"Enter", "Esc"})
    /\ UNCHANGED <<should_quit, boot_complete, nickname_buffer, nickname>>

\* app.rs:135-141
HandleKeyNormal(key) ==
    /\ should_quit' = (should_quit \/ key = KeyChar("q") \/ key.code = "Esc")
    /\ input_mode' = (key.code = "Enter")
    /\ UNCHANGED <<boot_complete, nickname_buffer, nickname, input_buffer, chat_messages,
                   cmd_queue, sendLog>>

\* app.rs:79-142
handle_key(key) ==
    IF ~boot_complete THEN HandleKeyBoot(key)
    ELSE IF input_mode THEN HandleKeyInput(key)
    ELSE HandleKeyNormal(key)

Contains(seq, x) == \E i \in 1..Len(seq) : seq[i] = x

\* Vec::retain(|p| p != x)
RECURSIVE Without(_, _)
Without(seq, x) ==
    IF seq = <<>> THEN <<>>
    ELSE IF Head(seq) = x THEN Without(Tail(seq), x)
    ELSE <<Head(seq)>> \o Without(Tail(seq), x)

\* geo.rs:29-67: loopback always resolves; the addresses of the model's remote
\* peers are private ones, which the database does not hold
Located(ip) == ip = "127.0.0.1"

\* app.rs:179-184
PushReceived(msgs, entry) ==
    LET pushed == Append(msgs, entry)
    IN IF Len(pushed) > ChatLimit THEN Tail(pushed) ELSE pushed

\* Mutant: a disconnect clears the listen addresses.
handle_network_eventReset(e) ==
    /\ listen_addrs' = CASE e.type = "Listening" -> Append(listen_addrs, e.addr)
                          [] e.type = "PeerDisconnected" -> <<>>
                          [] OTHER -> listen_addrs
    /\ peers' = CASE e.type = "PeerConnected" /\ ~Contains(peers, e.peer) ->
                        Append(peers, e.peer)
                  [] e.type = "PeerDisconnected" -> Without(peers, e.peer)
                  [] OTHER -> peers
    /\ peer_locations' =
          CASE e.type = "PeerConnected" /\ ~Contains(peers, e.peer) /\ Located(e.ip) ->
                  peer_locations \cup {e.peer}
            [] e.type = "PeerDisconnected" -> peer_locations \ {e.peer}
            [] OTHER -> peer_locations
    /\ chat_messages' = IF e.type = "MessageReceived"
                        THEN PushReceived(chat_messages, <<e.sender_id, e.text>>)
                        ELSE chat_messages

\* Mutant: a connected peer is recorded without looking it up first.
handle_network_eventDup(e) ==
    /\ listen_addrs' = IF e.type = "Listening" THEN Append(listen_addrs, e.addr)
                       ELSE listen_addrs
    /\ peers' = CASE e.type = "PeerConnected" -> Append(peers, e.peer)
                  [] e.type = "PeerDisconnected" -> Without(peers, e.peer)
                  [] OTHER -> peers
    /\ peer_locations' =
          CASE e.type = "PeerConnected" /\ Located(e.ip) -> peer_locations \cup {e.peer}
            [] e.type = "PeerDisconnected" -> peer_locations \ {e.peer}
            [] OTHER -> peer_locations
    /\ chat_messages' = IF e.type = "MessageReceived"
                        THEN PushReceived(chat_messages, <<e.sender_id, e.text>>)
                        ELSE chat_messages

\* app.rs:162-186
handle_network_event(e) ==
    /\ listen_addrs' = IF e.type = "Listening" THEN Append(listen_addrs, e.addr)
                       ELSE listen_addrs
    /\ peers' = CASE e.type = "PeerConnected" /\ ~Contains(peers, e.peer) ->
                        Append(peers, e.peer)
                  [] e.type = "PeerDisconnected" -> Without(peers, e.peer)
                  [] OTHER -> peers
    /\ peer_locations' =
          CASE e.type = "PeerConnected" /\ ~Contains(peers, e.peer) /\ Located(e.ip) ->
                  peer_locations \cup {e.peer}
            [] e.type = "PeerDisconnected" -> peer_locations \ {e.peer}
            [] OTHER -> peer_locations
    /\ chat_messages' = IF e.type = "MessageReceived"
                        THEN PushReceived(chat_messages, <<e.sender_id, e.text>>)
                        ELSE chat_messages

\* --------------------------------------------------------- run_app (main.rs)
\* Mutant: the known-peers check is missing.
ShouldAutoDialKnown(e) ==
    /\ e.type = "PeerDiscovered"
    /\ ParsePeerId(e.sender) # NoPeer
    /\ ParsePeerId(e.sender) # LocalPeerId

\* Mutant: the local-identity check is missing.
ShouldAutoDialSelf(e) ==
    /\ e.type = "PeerDiscovered"
    /\ ParsePeerId(e.sender) # NoPeer
    /\ ~Contains(peers, ParsePeerId(e.sender))

\* Mutant: a sender that does not parse is treated as an unknown peer.
ShouldAutoDialUnparsed(e) ==
    /\ e.type = "PeerDiscovered"
    /\ ~Contains(peers, ParsePeerId(e.sender))
    /\ ParsePeerId(e.sender) # LocalPeerId

\* Mutant: an address already dialed is not dialed again.
ShouldAutoDialOnce(e) ==
    /\ e.type = "PeerDiscovered"
    /\ ParsePeerId(e.sender) # NoPeer
    /\ ~Contains(peers, ParsePeerId(e.sender))
    /\ ParsePeerId(e.sender) # LocalPeerId
    /\ \A i \in 1..Len(sendLog) : sendLog[i].cmd # Dial(e.addr)

\* main.rs:174-181: dial a discovered peer that is neither known nor ourselves
ShouldAutoDial(e) ==
    /\ e.type = "PeerDiscovered"
    /\ ParsePeerId(e.sender) # NoPeer
    /\ ~Contains(peers, ParsePeerId(e.sender))
    /\ ParsePeerId(e.sender) # LocalPeerId

\* main.rs:149: the presence broadcast is due
PresenceDue == sincePresence > PresenceInterval

RECURSIVE AddrStrings(_)
AddrStrings(addrs) ==
    IF addrs = <<>> THEN <<>>
    ELSE <<AddrToString(Head(addrs))>> \o AddrStrings(Tail(addrs))

\* Mutant: the broadcast does not look at the address list.
UiPresenceUnguarded ==
    /\ running /\ uiPc = "loop" /\ ~should_quit
    /\ IF PresenceDue
       THEN TrySend(BroadcastPresence(ToBase58(LocalPeerId), AddrStrings(listen_addrs)))
       ELSE UNCHANGED <<cmd_queue, sendLog>>
    /\ sincePresence' = IF PresenceDue THEN 0 ELSE sincePresence
    /\ uiPc' = "drain"
    /\ UNCHANGED <<cfgVars, mainVars, seqVars, event_queue, engVars, swarmVars, appVars,
                   execLog, emitLog, handledLog, ghostVars>>

\* main.rs:133-160: loop condition, render, sleep, periodic presence broadcast
UiPresence ==
    /\ running /\ uiPc = "loop" /\ ~should_quit
    /\ IF PresenceDue /\ listen_addrs # <<>>
       THEN TrySend(BroadcastPresence(ToBase58(LocalPeerId), AddrStrings(listen_addrs)))
       ELSE UNCHANGED <<cmd_queue, sendLog>>
    /\ sincePresence' = IF PresenceDue THEN 0 ELSE sincePresence
    /\ uiPc' = "drain"
    /\ UNCHANGED <<cfgVars, mainVars, seqVars, event_queue, engVars, swarmVars, appVars,
                   execLog, emitLog, handledLog, ghostVars>>

\* main.rs:163-190: one iteration of the drain loop
UiDrain ==
    /\ running /\ uiPc = "drain"
    /\ event_queue # <<>>
    /\ LET e == Head(event_queue) IN
        /\ event_queue' = Tail(event_queue)
        /\ IF ShouldAutoDial(e)
           THEN TrySend(Dial(e.addr))
           ELSE UNCHANGED <<cmd_queue, sendLog>>
        /\ handle_network_event(e)
        /\ handledLog' = Append(handledLog, e)
    /\ UNCHANGED <<cfgVars, mainVars, seqVars, engVars, swarmVars, keyVars, uiVars,
                   execLog, emitLog, ghostVars>>

\* main.rs:163, 192-201: try_recv finds the queue empty; the rest of the frame polls
\* the keyboard, handles the key that is waiting (app.rs:67-77), and ticks
UiKey(key) ==
    /\ running /\ uiPc = "drain"
    /\ event_queue = <<>>
    /\ handle_key(key)
    /\ uiPc' = "loop"
    /\ UNCHANGED <<cfgVars, mainVars, seqVars, event_queue, engVars, swarmVars, netAppVars,
                   sincePresence, execLog, emitLog, handledLog, ghostVars>>

\* main.rs:163, 192-201: the same with no key waiting (app.rs:61-65: the tick only
\* animates the globe)
UiNoKey ==
    /\ running /\ uiPc = "drain"
    /\ event_queue = <<>>
    /\ uiPc' = "loop"
    /\ UNCHANGED <<cfgVars, mainVars, seqVars, cmd_queue, event_queue, engVars, swarmVars,
                   appVars, sincePresence, logVars, ghostVars>>

\* ------------------------------------------------------------ environment
\* Time passes.  While the relay task may be sleeping the clock is followed second by
\* second; otherwise it advances to the next instant at which the only remaining
\* comparison (main.rs:149) can change.  Timers saturate just above the thresholds
\* the code compares them with, and the presence timer crosses its threshold only
\* while the budget of UI send attempts allows another broadcast.
TimeStep ==
    IF \/ seqPc = "sleeping" /\ slept < Grace
       \/ RelayDialSent /\ sinceRelayDial < Grace
       \/ sincePresence >= PresenceInterval
    THEN 1
    ELSE PresenceInterval - sincePresence

Tick ==
    /\ running
    /\ slept' = IF seqPc = "sleeping" THEN Min(slept + TimeStep, Grace) ELSE slept
    /\ sinceRelayDial' = IF RelayDialSent THEN Min(sinceRelayDial + TimeStep, Grace)
                         ELSE sinceRelayDial
    /\ sincePresence' =
          IF InRunApp /\ (sincePresence < PresenceInterval \/ BudgetFor(1))
          THEN Min(sincePresence + TimeStep, PresenceInterval + 1)
          ELSE sincePresence
    /\ <<slept, sinceRelayDial, sincePresence>>' # <<slept, sinceRelayDial, sincePresence>>
    /\ UNCHANGED <<cfgVars, mainVars, seqPc, cmd_queue, event_queue, engVars, swarmVars,
                   appVars, uiPc, logVars, reservedAt, swarmCount, uiBudget>>

\* The keys the user presses: the user leaves the nickname empty, types short chat
\* lines, and submits one only while the budget of UI send attempts allows it.
Keys == {KeyEnter, KeyEsc, KeyChar("a")}

KeyAllowed(key) ==
    /\ key.code = "Char" =>
          boot_complete /\ input_mode /\ Len(input_buffer) < MaxTyped
    /\ boot_complete /\ input_mode /\ SubmitsChat(key) => BudgetFor(1)

UiKeyPress == \E key \in Keys : KeyAllowed(key) /\ UiKey(key)

\* The keys of a session that only leaves the nickname prompt and quits.
UiQuitKeyPress ==
    \E key \in {KeyEnter, KeyEsc} :
        /\ key = KeyEnter => ~boot_complete
        /\ UiKey(key)

\* The substrate finishes the identify exchange with the relay it dialed.
SwarmIdentify == relay_conn = "dialing" /\ SwarmOther


StartupArgs ==
    \/ MainListenArg \/ MainDialListen \/ MainDialArg
    \/ MainRunApp \/ RunAppReturn \/ MainReturn \/ MainExit

StartupRelay == MainRelayListen \/ MainRelayDial

Sequencer == SeqStart \/ SeqReserve

Engine == EngineCommand \/ EngineStop \/ EngineSend

UiLoop == UiPresence \/ UiDrain \/ UiNoKey

\* ---- the relay bootstrap: every startup mode, with and without RELAY_NODE
InitRelay ==
    /\ mode \in {"none", "listen", "dial"}
    /\ relay_env \in {"unset", "invalid", "valid"}
    /\ uiBudget = 0
    /\ InitState

NextRelay ==
    \/ StartupArgs \/ StartupRelay \/ Sequencer \/ Engine \/ UiLoop
    \/ UiQuitKeyPress
    \/ SwarmIdentify
    \/ Tick

SpecRelay == InitRelay /\ [][NextRelay]_vars

\* ---- the bridge: a node started in dial mode without a relay; the user chats and
\* a peer announces itself.  The substrate accepts every listen and dial, and the UI
\* attempts as many sends as the outbound queue holds: enough to fill the queue
\* behind the startup Dial and to overflow it.
InitBridge ==
    /\ mode = "dial"
    /\ relay_env = "unset"
    /\ uiBudget = CmdCap
    /\ InitState

BridgeCommand == EngineCommandWith({TRUE})

\* The one listener of this node has one address, reported before any other event.
FirstListenAddr == swarmCount = 0 /\ SwarmNewListenAddr

NextBridge ==
    \/ StartupArgs \/ BridgeCommand \/ EngineStop \/ EngineSend \/ UiLoop
    \/ UiKeyPress
    \/ FirstListenAddr \/ SwarmGossipFrom({PresenceOf(ToBase58(1))})
    \/ Tick

SpecBridge == InitBridge /\ [][NextBridge]_vars

\* ---- auto-dial: a node started in listen mode; peers connect, disconnect and
\* announce themselves; the user does not touch the keyboard
InitListen ==
    /\ mode = "listen"
    /\ relay_env = "unset"
    /\ uiBudget = MaxUiSends
    /\ InitState

NextAutoDial ==
    \/ MainListenArg \/ MainRunApp
    \/ EngineCommand \/ EngineSend \/ UiLoop
    \/ SwarmConnectionEstablishedFrom({1}, {Loopback, DnsAddr})
    \/ SwarmConnectionClosed
    \/ SwarmGossipFrom({PresenceOf(ToBase58(1)), PresenceOf(ToBase58(LocalPeerId)),
                        PresenceOf("junk")})

SpecAutoDial == InitListen /\ [][NextAutoDial]_vars

\* ---- the engine: a node started in listen mode; every kind of command reaches the
\* engine, every substrate call may fail, a peer publishes bytes that do not decode,
\* the substrate raises events the engine does not know, the user quits.  With a
\* relay configured the user sends nothing; without one the user chats and the
\* presence broadcast comes due.
InitEngine ==
    /\ mode = "listen"
    /\ \/ relay_env = "valid" /\ uiBudget = 0
       \/ relay_env = "unset" /\ uiBudget = MaxUiSends
    /\ InitState

NextEngine ==
    \/ MainListenArg \/ MainRelayDial
    \/ MainRunApp \/ RunAppReturn \/ MainReturn \/ MainExit
    \/ Sequencer \/ Engine \/ UiLoop
    \/ UiKeyPress
    \/ SwarmNewListenAddr \/ SwarmGossipFrom({Garbage}) \/ SwarmOther
    \/ Tick

SpecEngine == InitEngine /\ [][NextEngine]_vars

\* ---- inbound traffic: a node started in listen mode; connections come from every
\* form of address, peers publish every kind of payload, the UI handles the events
InboundInputs ==
    { Encode(EmptyEnvelope), Encode(DirectMsg), FutureEnvelope, Garbage }
    \cup {Encode(ChatMsg("abc123", <<"h", "i">>, ts)) : ts \in Timestamps}
    \cup {Encode(PresenceMsg(ToBase58(2), as, 1)) :
              \* address lists a peer may announce: none, one, two, and lists with
              \* a string that is not a multiaddress
              as \in { <<>>, <<AddrToString(PeerAddr)>>,
                       <<AddrToString(PeerAddr), AddrToString(Loopback)>>,
                       <<AddrToString(PeerAddr), BadAddrString, AddrToString(Loopback)>>,
                       <<BadAddrString>> }}

NextInbound ==
    \/ MainListenArg \/ MainRunApp
    \/ EngineCommand \/ EngineSend \/ UiLoop
    \/ SwarmConnectionEstablishedFrom({1}, RemoteAddrs)
    \/ SwarmGossipFrom(InboundInputs)

SpecInbound == InitListen /\ [][NextInbound]_vars

\* ---- the wire: a node started in listen mode receives what the engine of a peer
\* publishes when it is commanded to: chat lines and announcements with empty and
\* non-empty fields, stamped at the epoch or later.  The UI is not started; the
\* events the node's engine reports wait in the inbound queue.
WireTimestamps == {0, 1000}

WireCommands ==
    {PublishMessageFrom(sender, t) : sender \in {"", "abc123"}, t \in {<<>>, <<"h", "i">>}}
    \cup {BroadcastPresence(sender, as) :
              sender \in {"", "abc123"},
              as \in { <<>>, <<AddrToString(PeerAddr)>>,
                       <<AddrToString(PeerAddr), BadAddrString, AddrToString(Loopback)>> }}

WireInputs == {Encode(Envelope(cmd, ts)) : cmd \in WireCommands, ts \in WireTimestamps}

InitWire ==
    /\ mode = "listen"
    /\ relay_env = "unset"
    /\ uiBudget = 2 * EvtCap + 2
    /\ InitState

NextWire ==
    MainListenArg \/ EngineCommand \/ EngineSend \/ SwarmGossipFrom(WireInputs)

SpecWire == InitWire /\ [][NextWire]_vars

\* ---- the application state: a node started in listen mode; the listen may fail, a
\* peer connects, disconnects and chats; the user presses every key the handlers
\* tell apart, in every mode, submits one chat line, and may quit
AppKeyAllowed(key) ==
    /\ key = KeyChar("q") => boot_complete /\ ~input_mode
    /\ key.code = "Char" /\ ~boot_complete => Len(nickname_buffer) < MaxTyped
    /\ key.code = "Char" /\ boot_complete /\ input_mode => Len(input_buffer) < MaxTyped
    /\ boot_complete /\ input_mode /\ SubmitsChat(key) => BudgetFor(1)

AppKeyPress ==
    \E key \in Keys \cup {KeyChar("q"), KeyBackspace, KeyTab} :
        AppKeyAllowed(key) /\ UiKey(key)

InitApp ==
    /\ mode = "listen"
    /\ relay_env = "unset"
    /\ uiBudget = 1
    /\ InitState

NextApp ==
    \/ MainListenArg \/ MainRunApp \/ RunAppReturn \/ MainReturn \/ MainExit
    \/ EngineCommand \/ EngineSend \/ UiLoop
    \/ AppKeyPress
    \/ FirstListenAddr \/ SwarmConnectionClosed
    \* the peer holds one connection at a time and chats while it is connected
    \/ conns[1] = 0 /\ SwarmConnectionEstablishedFrom({1}, {Loopback})
    \/ conns[1] > 0 /\ SwarmGossipFrom({ChatInput})

SpecApp == InitApp /\ [][NextApp]_vars

\* ---- a failing engine: a node started in listen mode whose engine task may end
\* while the UI runs; the user only quits
InitFault ==
    /\ mode = "listen"
    /\ relay_env = "unset"
    /\ uiBudget = 0
    /\ InitState

NextFault ==
    \/ MainListenArg \/ MainRunApp \/ RunAppReturn \/ MainReturn \/ MainExit
    \/ EngineCommand \/ EngineSend \/ EngineAbort
    \/ UiLoop \/ UiQuitKeyPress
    \/ SwarmNewListenAddr \/ SwarmOther

SpecFault == InitFault /\ [][NextFault]_vars

\* Fairness: the runtime keeps scheduling runnable tasks, the main thread keeps
\* running, time passes.
SpecRelayLive ==
    /\ SpecRelay
    /\ WF_vars(StartupArgs) /\ WF_vars(StartupRelay)
    /\ WF_vars(Sequencer)
    /\ WF_vars(Engine)
    /\ WF_vars(UiLoop)
    /\ WF_vars(Tick)

\* ---- connections: a node started in listen mode; a peer connects directly and
\* through the relay, at addresses that carry an IP, and its connections close one
\* at a time
NextPeers ==
    \/ MainListenArg \/ MainRunApp
    \/ EngineCommand \/ EngineSend \/ UiLoop
    \/ SwarmConnectionEstablishedFrom({1}, {PeerAddr, RelayedAddr})
    \/ SwarmConnectionClosed

SpecPeers == InitFault /\ [][NextPeers]_vars

\* ---- a long chat: a node started in listen mode; the user submits the line "a"
\* again and again, each time after the engine has taken the line before, up to one
\* line more than the history is meant to hold; a peer chats once the history is
\* about full
ChatKeyAllowed(key) ==
    /\ key.code = "Char" => boot_complete /\ input_mode /\ input_buffer = <<>>
    /\ boot_complete /\ input_mode /\ SubmitsChat(key) =>
          cmd_queue = <<>> /\ BudgetFor(1)

ChatKeyPress == \E key \in {KeyEnter, KeyChar("a")} : ChatKeyAllowed(key) /\ UiKey(key)

InitChat ==
    /\ mode = "listen"
    /\ relay_env = "unset"
    /\ uiBudget = ChatLimit + 1
    /\ InitState

NextChat ==
    \/ MainListenArg \/ MainRunApp
    \/ BridgeCommand \/ EngineSend \/ UiLoop
    \/ ChatKeyPress
    \/ Len(chat_messages) >= ChatLimit - 1 /\ SwarmGossipFrom({ChatInput})

SpecChat == InitChat /\ [][NextChat]_vars

\* ---- the nickname prompt: a node started in listen mode; at the prompt the user
\* presses every key the handler tells apart, with one-byte and two-byte characters,
\* for as long as the handler takes them; past the prompt the user only enters and
\* leaves input mode, or quits
NextNick ==
    \/ MainListenArg \/ MainRunApp
    \/ EngineCommand \/ EngineSend \/ UiLoop
    \/ \E key \in {KeyEnter, KeyEsc, KeyBackspace, KeyTab,
                    KeyChar("a"), KeyChar("q"), KeyChar("é")} :
          /\ boot_complete => key \in {KeyEnter, KeyEsc}
          /\ UiKey(key)

SpecNick == InitFault /\ [][NextNick]_vars

\* ---- the two loops: a node started in dial mode without a relay.  Substrate calls
\* may fail, the substrate always has an event ready, the user may quit.  The main
\* thread keeps running, and the runtime keeps polling the engine: select! polls its
\* ready branches in random order, so a branch that stays ready is taken.
InitLoops ==
    /\ mode = "dial"
    /\ relay_env = "unset"
    /\ uiBudget = 0
    /\ InitState

NextLoops ==
    \/ StartupArgs \/ Engine \/ UiLoop
    \/ UiQuitKeyPress
    \/ SwarmNewListenAddr \/ SwarmPing

SpecLoops ==
    /\ InitLoops /\ [][NextLoops]_vars
    /\ WF_vars(StartupArgs)
    /\ WF_vars(Engine)
    /\ WF_vars(UiLoop)

\* =================================================================== claims
SentIndexes == 1..Len(sendLog)
IsRelayDial(i) == sendLog[i].by = "main" /\ sendLog[i].cmd = Dial(RelayAddr)
IsReserve(i) == sendLog[i].cmd.type = "ListenOnRelay"
RelayDialEnqueued == \E i \in SentIndexes : IsRelayDial(i)
ReserveEnqueued == \E i \in SentIndexes : IsReserve(i)

\* C1: whenever ListenOnRelay has been enqueued, at least the grace period (2 s) has
\* passed since Dial(relay) was enqueued.
C1_GraceBeforeReserve == ReserveEnqueued => sinceRelayDial >= Grace

C1_Witness == ReserveEnqueued /\ RelayDialEnqueued /\ sinceRelayDial = Grace

\* C2 (as claimed): when the engine asks the substrate for the circuit reservation, the
\* identify handshake with the relay has completed.
C2_ReserveAfterHandshake == reservedAt \in {"never", "identified"}

\* C3: when main enqueues Dial(relay), a Listen command was enqueued before it; with
\* neither listen nor dial mode that Listen is on the ephemeral address.
C3_ListenBeforeRelayDial ==
    \A i \in SentIndexes :
        IsRelayDial(i) =>
            \E j \in 1..(i - 1) :
                /\ sendLog[j].cmd.type = "Listen"
                /\ mode = "none" => sendLog[j].cmd = Listen(Ephemeral)

C3_Witness == mode = "none" /\ RelayDialEnqueued

\* C4 (as claimed): with a relay address that parses, ListenOnRelay(relay) is
\* eventually enqueued.
C4_ReserveEventually ==
    (relay_env = "valid") ~>
        (\E i \in SentIndexes : sendLog[i].cmd = ListenOnRelay(RelayAddr))

\* C4 (amended): with a relay address that parses, ListenOnRelay(relay) is eventually
\* enqueued after the dial of the same address, unless the process exits first.
C4_ReserveEventuallyUnlessExit ==
    (relay_env = "valid") ~>
        \/ ~running
        \/ \E i, j \in SentIndexes :
              /\ i < j
              /\ IsRelayDial(i)
              /\ sendLog[j] = [cmd |-> ListenOnRelay(RelayAddr), by |-> "seq", ok |-> TRUE]

C4_Witness ==
    /\ running /\ seqPc = "done"
    /\ \E i \in SentIndexes : sendLog[i].cmd = ListenOnRelay(RelayAddr)

\* C5: the sequencer enqueues Dial(relay) at most once and ListenOnRelay at most once,
\* and neither main nor the relay task enqueues anything after the reservation.
C5_ReservationTerminal ==
    /\ Cardinality({i \in SentIndexes : IsRelayDial(i)}) <= 1
    /\ Cardinality({i \in SentIndexes : IsReserve(i)}) <= 1
    /\ \A i, j \in SentIndexes : IsReserve(i) /\ i < j => sendLog[j].by = "ui"
    /\ ReserveEnqueued => seqPc = "done"

C5_Witness ==
    /\ ReserveEnqueued
    /\ \E i \in 1..Len(handledLog) :
          handledLog[i] = Error("Relay Reservation", WithCircuit(RelayAddr))


\* -------------------------------------------------------------- the bridge
Last(seq) == seq[Len(seq)]

RECURSIVE AcceptedCmds(_)
AcceptedCmds(log) ==
    IF log = <<>> THEN <<>>
    ELSE (IF Head(log).ok THEN <<Head(log).cmd>> ELSE <<>>) \o AcceptedCmds(Tail(log))

\* The UI made a send attempt in this step.
UiAttempts == Len(sendLog') = Len(sendLog) + 1 /\ Last(sendLog').by = "ui"

\* The steps run_app takes by itself.
UiStep == UiPresence \/ UiDrain \/ UiNoKey \/ RunAppReturn

C6_NeverBlocked ==
    running /\ InRunApp =>
        /\ ENABLED UiStep
        /\ uiPc = "drain" /\ event_queue = <<>> => ENABLED UiKey(KeyEnter)

C6_DroppedNeverRun == execLog \o cmd_queue = AcceptedCmds(sendLog)

C6_DropOnFull ==
    UiAttempts /\ Len(cmd_queue) = CmdCap =>
        /\ cmd_queue' = cmd_queue
        /\ ~Last(sendLog').ok
        /\ uiPc' # uiPc \/ handledLog' = Append(handledLog, Head(event_queue))

\* C6: the UI is never blocked by the command queue; a UI send attempt on a full queue
\* leaves the queue unchanged and the UI moves on; what the engine has executed and
\* what is queued are exactly the accepted commands, in order.
C6_NonBlockingDrop ==
    /\ [](C6_NeverBlocked /\ C6_DroppedNeverRun)
    /\ [][C6_DropOnFull]_vars

C6_Witness ==
    /\ \E i \in SentIndexes : sendLog[i].by = "ui" /\ ~sendLog[i].ok
    /\ engPc # "stopped"
    /\ execLog = AcceptedCmds(sendLog)
    /\ Len(execLog) = CmdCap

\* What the UI has handled, followed by what waits in the inbound queue, is what the
\* engine emitted.
C7_InOrder == handledLog \o event_queue = emitLog

C7_NoLoss ==
    engPc = "send" /\ engOut' # engOut =>
        /\ Len(event_queue) < EvtCap
        /\ event_queue' = Append(event_queue, Head(engOut))
        /\ emitLog' = Append(emitLog, Head(engOut))

\* C7: the events the UI handles are the events the engine emitted, in order, none
\* lost, none twice; and the engine gives up an event only by putting it in the queue,
\* which it does only when the queue has room.
C7_EventOrderNoLoss == []C7_InOrder /\ [][C7_NoLoss]_vars

C7_Witness ==
    /\ engPc = "send" /\ Len(event_queue) = EvtCap
    /\ handledLog # <<>>

\* The UI takes event e from the inbound queue in this step.
Drains(e) ==
    /\ uiPc = "drain" /\ event_queue # <<>>
    /\ e = Head(event_queue)
    /\ handledLog' = Append(handledLog, e)

NoSendAttempt == sendLog' = sendLog /\ cmd_queue' = cmd_queue

C8_Step ==
    \A e \in {PeerDiscovered(ToBase58(p), PeerAddr) : p \in RemotePeers} :
        Drains(e) /\ Contains(peers, ParsePeerId(e.sender)) => NoSendAttempt

\* C8: handling PeerDiscovered from a peer that is in the known-peers set issues no
\* command.
C8_NoDialOfKnownPeer == [][C8_Step]_vars

C8_Witness ==
    /\ CountUiSends(sendLog) = 0
    /\ Contains(peers, 1)
    /\ handledLog # <<>>
    /\ Last(handledLog) = PeerDiscovered(ToBase58(1), PeerAddr)

C9_Step == Drains(PeerDiscovered(ToBase58(LocalPeerId), PeerAddr)) => NoSendAttempt

\* C9: handling PeerDiscovered whose sender is the local identity issues no command.
C9_NoDialOfSelf == [][C9_Step]_vars

C9_Witness ==
    /\ CountUiSends(sendLog) = 0
    /\ handledLog # <<>>
    /\ Last(handledLog) = PeerDiscovered(ToBase58(LocalPeerId), PeerAddr)

C10_Step ==
    \A e \in {PeerDiscovered(ToBase58(p), PeerAddr) : p \in RemotePeers} :
        Drains(e) /\ ~Contains(peers, ParsePeerId(e.sender)) =>
            /\ sendLog' = Append(sendLog, [cmd |-> Dial(e.addr), by |-> "ui",
                                           ok |-> TrySendAccepts])
            /\ cmd_queue' = IF TrySendAccepts THEN Append(cmd_queue, Dial(e.addr))
                            ELSE cmd_queue

\* C10: handling PeerDiscovered from a peer identity that is neither known nor local
\* makes exactly one attempt to enqueue Dial(address), whatever was dialed before.
C10_OneDialPerDiscovery == [][C10_Step]_vars

C10_Witness ==
    /\ Len(sendLog) = 3
    /\ sendLog[2] = [cmd |-> Dial(PeerAddr), by |-> "ui", ok |-> TRUE]
    /\ sendLog[3] = sendLog[2]
    /\ ~Contains(peers, 1)

\* ------------------------------------------------------- engine lifecycle
\* The engine takes a new input (a command or a substrate event) in this step.
EngineTakesCommand == Len(execLog') = Len(execLog) + 1
EngineTakesSwarmEvent == swarmCount' = swarmCount + 1

\* C11 (as claimed): once run_app has dropped the UI's command sender, the engine
\* executes no command, handles no substrate event and emits no event any more.
C11_StopsWhenUiSenderDropped ==
    [][~UiSenderAlive /\ running =>
          /\ ~EngineTakesCommand
          /\ ~EngineTakesSwarmEvent
          /\ emitLog' = emitLog]_vars

\* C12: the engine loop has exited only if the command channel is closed: no Sender
\* is left and no command is buffered.
C12_StopsOnlyOnClosure == engPc = "stopped" => cmd_queue = <<>> /\ ~SendersAlive

\* The engine is back at its select after a failed substrate call whose Error event
\* it could not deliver, the Receiver being gone.
C12_Witness ==
    /\ running /\ engPc = "select"
    /\ ~ReceiverAlive
    /\ engIn.kind = "cmd" /\ ~engIn.ok
    /\ engIn.cmd.type \in {"Listen", "Dial", "ListenOnRelay"}

\* C13 (as claimed): a frame of the UI loop in which try_recv finds the inbound channel
\* empty with its sending half closed is the last frame: the loop is left.
C13_ClosedInboundIsFatal ==
    [][(engPc = "stopped" /\ uiPc = "drain" /\ event_queue = <<>> /\ uiPc' = "loop")
          => should_quit']_vars

\* ------------------------------------------------------- engine: failures
IsPrefix(a, b) == Len(a) <= Len(b) /\ SubSeq(b, 1, Len(a)) = a

AddressCommands == {"Listen", "Dial", "ListenOnRelay"}
PublishCommands == {"PublishMessage", "BroadcastPresence"}

\* The Error events among the events the engine is about to send.
ErrorsIn(evts) == {i \in 1..Len(evts) : evts[i].type = "Error"}

C14_Step ==
    EngineTakesCommand /\ engIn'.cmd.type \in AddressCommands =>
        /\ engIn'.ok => engOut' = <<>>
        /\ ~engIn'.ok =>
              /\ Len(engOut') = 1
              /\ engOut'[1].type = "Error"
              /\ IsPrefix(engIn'.cmd.addr, engOut'[1].addr)
        /\ engPc' = IF engIn'.ok THEN "select" ELSE "send"

\* C14: executing Listen, Dial or ListenOnRelay leaves exactly one Error event to send,
\* carrying the command's address, when the substrate call fails, and none when it
\* succeeds; the engine goes on with its loop.
C14_OneErrorPerFailure == [][C14_Step]_vars

C14_Witness ==
    /\ engIn.kind = "cmd" /\ engIn.cmd = ListenOnRelay(RelayAddr) /\ ~engIn.ok
    /\ engPc = "select" /\ engOut = <<>>
    /\ Cardinality(ErrorsIn(emitLog)) = 1
    /\ Len(execLog) = 3

C15_Step ==
    EngineTakesCommand /\ engIn'.cmd.type \in PublishCommands /\ ~engIn'.ok =>
        /\ engOut' = <<>>
        /\ event_queue' = event_queue
        /\ emitLog' = emitLog
        /\ engPc' = "select"

\* C15: executing PublishMessage or BroadcastPresence whose publish fails leaves no
\* event to send and the inbound queue as it was.
C15_PublishFailureSilent == [][C15_Step]_vars

C15_Witness ==
    /\ engIn.kind = "cmd" /\ ~engIn.ok
    /\ engIn.cmd.type = "BroadcastPresence"
    /\ \E i \in 1..Len(execLog) : execLog[i].type = "PublishMessage"
    /\ engPc = "select" /\ engOut = <<>>

\* C16 (as claimed): every command whose substrate call fails, a publish included,
\* leaves an Error event for the UI.
C16_EveryFailureReported ==
    [][EngineTakesCommand /\ ~engIn'.ok => ErrorsIn(engOut') # {}]_vars

\* C16 (amended): a command whose substrate call fails leaves an Error event for the UI
\* exactly when it is a Listen, a Dial or a ListenOnRelay; a failed publish leaves none.
C16_FailureReportedUnlessPublish ==
    [][EngineTakesCommand /\ ~engIn'.ok =>
          (ErrorsIn(engOut') # {} <=> engIn'.cmd.type \in AddressCommands)]_vars

C16_Witness ==
    /\ engIn.kind = "cmd" /\ engIn.cmd = Dial(RelayAddr) /\ ~engIn.ok
    /\ engPc = "select"
    /\ emitLog # <<>> /\ Last(emitLog) = Error("Dial", RelayAddr)

\* ------------------------------------------------------- engine: inbound
\* The engine takes a pub/sub delivery in this step.
EngineTakesGossip == EngineTakesSwarmEvent /\ engIn'.ev.ev = "Gossip"

C17_Step ==
    EngineTakesGossip /\ Decode(engIn'.ev.data) = Err =>
        /\ engOut' = <<>>
        /\ event_queue' = event_queue /\ emitLog' = emitLog
        /\ engPc' = "select"

\* C17: a delivery whose payload does not decode leaves no event to send, the inbound
\* queue as it was, and the engine at its select.
C17_DecodeFailureSilent == [][C17_Step]_vars

C17_Witness ==
    /\ engIn = [kind |-> "swarm", ev |-> GossipMessage(Garbage)]
    /\ engPc = "select" /\ engOut = <<>>
    /\ swarmCount = MaxSwarmEvents
    /\ emitLog = <<>>

\* The message a delivery decodes to is a Chat.
DecodesToChat(data) == Decode(data) # Err /\ Decode(data).kind = "Chat"

C18_Step ==
    EngineTakesGossip /\ DecodesToChat(engIn'.ev.data) =>
        LET chat == Decode(engIn'.ev.data)
        IN /\ chat.timestamp \in Timestamps
           /\ engOut' = <<MessageReceived(chat.sender_id, chat.text)>>
           /\ engPc' = "send"

\* C18: a delivery that decodes to a Chat leaves exactly one MessageReceived event to
\* send, with the Chat's sender id and text, whatever its timestamp.
C18_ChatYieldsMessageReceived == [][C18_Step]_vars

C18_Witness ==
    /\ engIn = [kind |-> "swarm",
                ev |-> GossipMessage(Encode(ChatMsg("abc123", <<"h", "i">>, 2147483647)))]
    /\ handledLog = <<MessageReceived("abc123", <<"h", "i">>)>>
    /\ emitLog = handledLog

\* The message a delivery decodes to is a Presence.
DecodesToPresence(data) == Decode(data) # Err /\ Decode(data).kind = "Presence"

Parses(str) == ParseMultiaddr(str) # Err

\* C19 (as claimed): a delivery that decodes to a Presence leaves as many events to
\* send as it lists addresses, each a PeerDiscovered of the sender.
C19_OneDiscoveryPerAddress ==
    [][EngineTakesGossip /\ DecodesToPresence(engIn'.ev.data) =>
          LET presence == Decode(engIn'.ev.data)
          IN /\ Len(engOut') = Len(presence.listen_addrs)
             /\ \A i \in 1..Len(engOut') :
                   /\ engOut'[i].type = "PeerDiscovered"
                   /\ engOut'[i].sender = presence.sender_id]_vars

C19_Step ==
    EngineTakesGossip /\ DecodesToPresence(engIn'.ev.data) =>
        LET presence == Decode(engIn'.ev.data)
            good == SelectSeq(presence.listen_addrs, Parses)
        IN /\ Len(engOut') = Len(good)
           /\ \A i \in 1..Len(good) :
                 engOut'[i] = PeerDiscovered(presence.sender_id, ParseMultiaddr(good[i]))

\* C19 (amended): a delivery that decodes to a Presence leaves one PeerDiscovered of
\* the sender per listed address that parses as a multiaddress, in list order; a
\* listed string that does not parse leaves none.
C19_OneDiscoveryPerParsedAddress == [][C19_Step]_vars

C19_Witness ==
    /\ engIn = [kind |-> "swarm",
                ev |-> GossipMessage(Encode(PresenceMsg(ToBase58(2),
                          <<AddrToString(PeerAddr), BadAddrString, AddrToString(Loopback)>>, 1)))]
    /\ emitLog = <<PeerDiscovered(ToBase58(2), PeerAddr),
                   PeerDiscovered(ToBase58(2), Loopback)>>

\* C20 (as claimed): a connection-established event leaves exactly one event to send, a
\* PeerConnected, whatever the remote address.
C20_OnePeerConnectedPerConnection ==
    [][EngineTakesSwarmEvent /\ engIn'.ev.ev = "ConnectionEstablished" =>
          /\ Len(engOut') = 1
          /\ engOut'[1].type = "PeerConnected"]_vars

\* What a receiving engine reports for a publish command of the sender: the chat line
\* under the sender's id, or one discovery per announced address that parses.
Reported(cmd) ==
    IF cmd.type = "PublishMessage" THEN <<MessageReceived(cmd.sender_id, cmd.text)>>
    ELSE LET parsed == SelectSeq(cmd.listen_addrs, Parses)
         IN [i \in 1..Len(parsed) |-> PeerDiscovered(cmd.sender_id, ParseMultiaddr(parsed[i]))]

\* C21: for every publish command and time of publication, the bytes the sender's
\* engine publishes decode to the envelope it built, and the engine that receives
\* them reports what the sender's engine was commanded to publish.
C21_RoundTrip ==
    [][EngineTakesGossip =>
          \A cmd \in WireCommands, ts \in WireTimestamps :
              engIn'.ev.data = Encode(Envelope(cmd, ts)) =>
                  /\ Decode(engIn'.ev.data) = Envelope(cmd, ts)
                  /\ engOut' = Reported(cmd)]_vars

C21_Witness ==
    /\ Len(emitLog) = 2
    /\ emitLog[1] = MessageReceived("", <<>>)
    /\ emitLog[2] = PeerDiscovered("abc123", PeerAddr)
    /\ engOut = <<PeerDiscovered("abc123", Loopback)>>
    /\ engIn = [kind |-> "swarm",
                ev |-> GossipMessage(Encode(Envelope(
                          BroadcastPresence("abc123",
                              <<AddrToString(PeerAddr), BadAddrString, AddrToString(Loopback)>>),
                          1000)))]

\* The delivery decodes to an envelope whose variant is neither Chat nor Presence.
DecodesToUnhandled(data) ==
    Decode(data) # Err /\ Decode(data).kind \notin {"Chat", "Presence"}

\* C22: a delivery that decodes to an envelope with no variant, or with a variant other
\* than Chat and Presence, leaves no event to send (hence no Error), the inbound queue
\* untouched, and the engine back at its select.
C22_UnhandledVariantIgnored ==
    [][EngineTakesGossip /\ DecodesToUnhandled(engIn'.ev.data) =>
          /\ engOut' = <<>>
          /\ event_queue' = event_queue /\ emitLog' = emitLog
          /\ engPc' = "select"]_vars

C22_Witness ==
    /\ engIn = [kind |-> "swarm", ev |-> GossipMessage(Encode(DirectMsg))]
    /\ engPc = "select" /\ engOut = <<>>
    /\ swarmCount = 1
    /\ emitLog = <<>>

\* A step of the drain loop: the UI handles the event at the head of the inbound queue.
HandlesEvent == UiDrain /\ handledLog' = Append(handledLog, Head(event_queue))

\* A step in which the waiting key is q or Esc.
QuitKey == UiKey(KeyEsc) \/ UiKey(KeyChar("q"))

\* C23: no step that handles a NetworkEvent changes should_quit, and should_quit
\* changes only by becoming true on a q or Esc key handled in normal mode.
C23_QuitOnlyByKey ==
    [][/\ HandlesEvent => should_quit' = should_quit
       /\ should_quit' # should_quit =>
             /\ should_quit'
             /\ boot_complete /\ ~input_mode
             /\ QuitKey]_vars

C23_Witness ==
    /\ should_quit
    /\ \E i \in 1..Len(handledLog) : handledLog[i].type = "Error"
    /\ \E i \in 1..Len(handledLog) : handledLog[i].type = "MessageReceived"

\* C24 (as claimed): the known-peers set and the chat history change only in a step
\* that handles a NetworkEvent.
C24_ChangedOnlyByEvents ==
    [][peers' # peers \/ chat_messages' # chat_messages => HandlesEvent]_vars

\* A step in which Enter submits the non-empty line of the input mode, which appends
\* the user's own message to the history.
SubmitsLine ==
    /\ boot_complete /\ input_mode /\ input_buffer # <<>>
    /\ UiKey(KeyEnter)
    /\ chat_messages' = Append(chat_messages, <<display_name, input_buffer>>)

\* C24 (amended): the known-peers set changes only in a step that handles a
\* NetworkEvent; the chat history changes only in such a step or when the user submits
\* a non-empty line.
C24_ChangedOnlyByEventsOrSubmit ==
    [][/\ peers' # peers => HandlesEvent
       /\ chat_messages' # chat_messages => HandlesEvent \/ SubmitsLine]_vars

C24_Witness ==
    /\ Len(chat_messages) = 2
    /\ chat_messages[1] = <<"abc123", <<"h", "i">>>>
    /\ chat_messages[2] = <<display_name, <<"a">>>>
    /\ peers = <<1>>

\* C25: the listen addresses change only in a step that handles a Listening event,
\* which appends the event's address; every other step leaves them as they are.
C25_ListenAddrsAppendOnly ==
    [][listen_addrs' # listen_addrs =>
          /\ HandlesEvent
          /\ Head(event_queue).type = "Listening"
          /\ listen_addrs' = Append(listen_addrs, Head(event_queue).addr)]_vars

C25_Witness ==
    /\ listen_addrs = <<ArgAddr>>
    /\ handledLog[1].type = "Listening"
    /\ Len(handledLog) = 3
    /\ handledLog[3].type = "PeerDisconnected"
    /\ should_quit

\* run_app has returned: the UI drains the inbound queue no more.
UiStopped == uiPc = "returned"

\* An iteration of the engine loop takes one command and no substrate event, or one
\* substrate event and no command.
C26_OneItem ==
    /\ EngineTakesCommand =>
          /\ cmd_queue = <<Head(cmd_queue)>> \o cmd_queue'
          /\ engIn' = [kind |-> "cmd", cmd |-> Head(cmd_queue), ok |-> engIn'.ok]
          /\ swarmCount' = swarmCount
    /\ engIn' # engIn /\ engIn'.kind = "swarm" =>
          /\ cmd_queue' = cmd_queue
          /\ execLog' = execLog

\* C26: each iteration of the engine loop handles exactly one item, and while the UI
\* keeps draining, the n-th accepted command is eventually executed although the
\* substrate always has an event ready.
C26_FairSelection ==
    /\ [][C26_OneItem]_vars
    /\ \A n \in 1..CmdCap :
          Len(AcceptedCmds(sendLog)) >= n ~> (Len(execLog) >= n \/ UiStopped)

C26_Witness ==
    /\ execLog = <<Listen(Ephemeral), Dial(ArgAddr)>>
    /\ engIn = [kind |-> "swarm", ev |-> OtherEvent]
    /\ Len(handledLog) > EvtCap
    /\ ~should_quit

\* main is at one of its blocking sends (main.rs:64-101).
AtStartupSend ==
    \/ mainPc = "listen_arg" /\ mode = "listen"
    \/ mainPc \in {"dial_listen", "dial_arg", "relay_listen", "relay_dial"}

\* The engine is suspended in event_sender.send(..).await on a full inbound queue.
Suspended == running /\ engPc = "send" /\ ReceiverAlive /\ Len(event_queue) = EvtCap

\* C27 (as claimed): main's blocking sends always find room in the outbound queue, and
\* a suspended engine eventually completes its send.
C27_NoDeadlock ==
    /\ [](AtStartupSend => CanSend)
    /\ \A n \in 1..CmdCap :
          Suspended /\ Len(engOut) = n ~> Len(engOut) < n

\* C27 (amended): main's blocking sends always find room in the outbound queue, and a
\* suspended engine eventually completes its send unless the process exits first.
C27_NoDeadlockUnlessExit ==
    /\ [](AtStartupSend => CanSend)
    /\ \A n \in 1..CmdCap :
          Suspended /\ Len(engOut) = n ~> (Len(engOut) < n \/ ~running)

C27_Witness ==
    /\ Suspended
    /\ InRunApp
    /\ Len(AcceptedCmds(sendLog)) = CmdCap + 1

\* The UI has drained every event the engine has to report.
Drained == InRunApp /\ engPc = "select" /\ engOut = <<>> /\ event_queue = <<>>

\* C28 (as claimed): once the UI has drained every event, a peer is in the known-peers
\* set exactly if the substrate holds at least one established connection to it.
C28_PeersTrackConnections ==
    Drained => \A p \in RemotePeers : Contains(peers, p) <=> conns[p] > 0

\* C29: the commands the engine has executed are the first of the accepted commands,
\* each once and in the order of acceptance whoever sent them, and the rest is still
\* queued; a relay reservation is executed only after the dial of the relay.
C29_ExactlyOnceInOrder ==
    /\ IsPrefix(execLog, AcceptedCmds(sendLog))
    /\ cmd_queue = SubSeq(AcceptedCmds(sendLog), Len(execLog) + 1,
                          Len(AcceptedCmds(sendLog)))
    /\ \A i \in 1..Len(execLog) :
          execLog[i].type = "ListenOnRelay" =>
              \E j \in 1..(i - 1) : execLog[j] = Dial(RelayAddr)

C29_Witness ==
    /\ execLog = <<Listen(ArgAddr), Dial(RelayAddr), ListenOnRelay(RelayAddr)>>
    /\ cmd_queue = <<>>
    /\ engIn.kind = "cmd" /\ engIn.cmd = ListenOnRelay(RelayAddr) /\ engIn.ok

\* C30 (as claimed): the chat history never holds more than 100 entries.
C30_ChatBounded == Len(chat_messages) <= ChatLimit

\* ---- C31
\* C31: the nickname buffer never holds more than 8 bytes, so that the remaining
\* count of the boot screen, 8 - nickname_buffer.len() (ui.rs:449), never underflows.
C31_NicknameWithinLimit == ByteLen(nickname_buffer) <= NickLimit

\* ---- C32
PeersConsistent ==
    /\ \A i, j \in 1..Len(peers) : peers[i] = peers[j] => i = j
    /\ peer_locations \subseteq {peers[i] : i \in 1..Len(peers)}

C32_Step ==
    /\ PeersConsistent /\ PeersConsistent'
    /\ \A p \in RemotePeers :
          Drains(PeerDisconnected(p)) /\ ~Contains(peers, p) => UNCHANGED appVars

\* C32: the known-peers list never holds an identity twice, every peer with a location
\* is in the list, and handling PeerDisconnected for a peer that is not in the list
\* changes nothing of the application state.
C32_PeerBookkeeping == [][C32_Step]_vars

C32_Witness ==
    /\ Len(handledLog) = 4
    /\ handledLog[1] = handledLog[2]
    /\ handledLog[1] = PeerConnected(1, "127.0.0.1")
    /\ handledLog[3] = PeerDisconnected(1)
    /\ handledLog[4] = PeerDisconnected(1)
    /\ peers = <<>> /\ peer_locations = {}

\* ---- C33
\* The lines of the history that the user submitted: all of them where no peer chats.
Echoed == chat_messages

AcceptedPublishes ==
    SelectSeq(sendLog, LAMBDA r : r.by = "ui" /\ r.cmd.type = "PublishMessage" /\ r.ok)

\* C33 (as claimed): every line echoed into the history for a message of the user
\* stands for a publish command that the command queue accepted, line by line.
C33_EchoedOnlyIfAccepted ==
    /\ Len(Echoed) = Len(AcceptedPublishes)
    /\ \A i \in 1..Len(Echoed) :
          Echoed[i] = <<display_name, AcceptedPublishes[i].cmd.text>>

\* ---- C34
\* Outside input mode the line is empty.
LineEmptyOutsideInput == ~input_mode => input_buffer = <<>>

\* A key is handled in input mode.
InInput == boot_complete /\ input_mode

C34_Step ==
    /\ LineEmptyOutsideInput /\ LineEmptyOutsideInput'
    /\ InInput /\ (UiKey(KeyEnter) \/ UiKey(KeyEsc)) =>
          ~input_mode' /\ input_buffer' = <<>>
    /\ InInput /\ UiKey(KeyEsc) => NoSendAttempt /\ ~should_quit'
    /\ InInput /\ input_buffer = <<>> /\ UiKey(KeyEnter) =>
          NoSendAttempt /\ chat_messages' = chat_messages

\* C34: the input line is empty whenever input mode is off; Enter and Esc in input
\* mode both leave it with an empty line; Esc in input mode sends no command and does
\* not quit; Enter on an empty line sends no command and adds no chat line.
C34_InputState == [][C34_Step]_vars

C34_Witness ==
    /\ boot_complete /\ ~input_mode /\ input_buffer = <<>>
    /\ ~should_quit
    /\ Len(AcceptedPublishes) = 1
    /\ \E i \in 1..Len(chat_messages) : chat_messages[i][2] = <<"a">>

\* ---- C35
\* A step in which a key is handled.
KeyHandled ==
    \E key \in {KeyEnter, KeyEsc, KeyBackspace, KeyTab,
                 KeyChar("a"), KeyChar("q"), KeyChar("é")} : UiKey(key)

C35_Step ==
    /\ ~boot_complete /\ KeyHandled =>
          NoSendAttempt /\ ~input_mode' /\ ~should_quit'
    /\ boot_complete' # boot_complete =>
          ~boot_complete /\ boot_complete' /\ UiKey(KeyEnter)

\* C35: a key handled while boot_complete is false sends no command, does not enter
\* input mode and does not set should_quit; boot_complete changes only from false to
\* true, and only when Enter is handled.
C35_BootGating == [][C35_Step]_vars

C35_Witness ==
    /\ boot_complete /\ input_mode /\ ~should_quit
    /\ nickname = <<"q", "é">>
    /\ CountUiSends(sendLog) = 0

\* ---- C36
C36_Step ==
    \A e \in {PeerDiscovered("junk", PeerAddr)} :
        Drains(e) /\ ParsePeerId(e.sender) = NoPeer => NoSendAttempt

\* C36: handling PeerDiscovered whose sender does not parse as a peer identity issues
\* no command.
C36_NoDialOfUnparsedSender == [][C36_Step]_vars

C36_Witness ==
    /\ CountUiSends(sendLog) = 0
    /\ handledLog # <<>>
    /\ Last(handledLog) = PeerDiscovered("junk", PeerAddr)
    /\ peers = <<>>

\* ---- C37
\* A step in which sending BroadcastPresence is attempted.
PresenceAttempt ==
    /\ Len(sendLog') = Len(sendLog) + 1
    /\ Last(sendLog').cmd.type = "BroadcastPresence"

PresenceAttempts == SelectSeq(sendLog, LAMBDA r : r.cmd.type = "BroadcastPresence")

C37_Step ==
    /\ PresenceAttempt =>
          /\ Last(sendLog').by = "ui"
          /\ Last(sendLog').cmd.listen_addrs # <<>>
          /\ \E i \in 1..Len(handledLog) : handledLog[i].type = "Listening"
          /\ Last(sendLog').cmd =
                BroadcastPresence(ToBase58(LocalPeerId), AddrStrings(listen_addrs))
          /\ sincePresence > PresenceInterval
          /\ sincePresence' = 0
    /\ sincePresence' > sincePresence => sendLog' = sendLog

\* C37: BroadcastPresence is attempted only by the UI, only after a Listening event
\* has been handled, with the local peer identity as sender and the text of every
\* listen address known at that moment, which is at least one; it is attempted only
\* when more than 15 seconds have passed since the timer was last reset, and the
\* attempt resets the timer, which grows only while nothing is sent.
C37_PresenceBroadcast == [][C37_Step]_vars

C37_Witness ==
    /\ Len(PresenceAttempts) = 2
    /\ PresenceAttempts[1].cmd.listen_addrs = AddrStrings(listen_addrs)
    /\ sincePresence > PresenceInterval

====
